---- MODULE Spec2Model ----
(***************************************************************************)
(* A model of counterfit/core/targets.py: the query execution layer of a   *)
(* Target (_submit, _submit_with_cache, _submit_with_logging, _get_query), *)
(* its counters and its fingerprint cache, and the attack lifecycle        *)
(* (set_attack_samples, init_run_attack, run_attack with the runner of     *)
(* ArtTarget / TextTarget / PETarget).                                     *)
(***************************************************************************)
EXTENDS Integers, Sequences, FiniteSets, TLC

(***************************************************************************)
(* Bounds of the model.                                                    *)
(***************************************************************************)
NumVals == 2        \* distinct sample contents 0 .. NumVals-1
MaxBatch == 2       \* longest batch handed to a submit operation directly
MaxDirect == 4      \* cap on num_evaluations under Spec
MaxRunEvals == 5    \* cap on num_evaluations under SpecRun
MaxEvals == 7       \* cap on num_evaluations under SpecScenario
MaxLog == 2         \* cap on the records of one session's log
MaxSessionEvals == 4    \* cap on num_evaluations under SpecSession
MaxBaseEvals == 3   \* cap on num_evaluations under SpecBase
MaxAttacks == 2     \* attack ids 1 .. MaxAttacks under SpecAttacks
MaxOperationEvals == 3  \* cap on num_evaluations under SpecOperations
MaxSharedEvals == 2 \* cap on the num_evaluations of each target under SpecShared
MaxScore == 2       \* class scores 0 .. MaxScore
MaxRows == 2        \* longest batch of output rows handed to outputs_to_labels

\* The None a miss leaves in the output list until the model's result replaces it
None == <<>>

\* The target objects.  Only the targets of ActiveTargets are operated under
\* Spec; the class attribute `cache` is one dict whatever the target.
Targets == {1, 2}
ActiveTargets == {1}

\* Target 1 is of a class that supplies a runner (ArtTarget, TextTarget,
\* PETarget); target 2 is of a class that derives from Target and supplies none.
Concrete == {1}

(***************************************************************************)
(* Samples.  A sample is a one-element int64 array (of the shape the       *)
(* target's model_input_shape gives it) held either as a numpy array (the  *)
(* pool X) or as a plain list (what a runner returns after .tolist()).     *)
(***************************************************************************)
Values == 0 .. (NumVals - 1)
Reps == {"ndarray", "list"}
Samples == [rep : Reps, val : Values]

RECURSIVE SeqsUpTo(_, _)
SeqsUpTo(S, n) ==
    IF n = 0 THEN {<<>>}
    ELSE LET shorter == SeqsUpTo(S, n - 1)
         IN  shorter \cup {Append(s, x) : s \in {q \in shorter : Len(q) = n - 1}, x \in S}

\* A batch is one container, an ndarray or a list: its rows are all of one kind.
Batches ==
    {b \in SeqsUpTo(Samples, MaxBatch) : \A i, j \in 1 .. Len(b) : b[i].rep = b[j].rep}

\* np.array(batch): the numbers of the batch, whatever container held them.
np_array(batch) == [i \in 1 .. Len(batch) |-> batch[i].val]

\* ndarray.data.tobytes() of one int64 element: 8 bytes, little endian.
RECURSIVE byte_at(_, _)
byte_at(v, i) == IF i = 1 THEN v % 256 ELSE byte_at(v \div 256, i - 1)

tobytes(v) == [i \in 1 .. 8 |-> byte_at(v, i)]

\* A key that also tells the container of the sample apart
_key_of_container(array) ==
    tobytes(array.val) \o <<IF array.rep = "list" THEN 1 ELSE 0>>

\* Target._key
_key(array) == tobytes(array.val)

(***************************************************************************)
(* The wrapped model: deterministic per input, one output row of three     *)
(* class scores per input.  The two targets wrap different models.         *)
(***************************************************************************)
model_output_classes == <<"catA", "catB", "catC">>

predict(t, v) ==
    [c \in 1 .. 3 |-> IF c - 1 = (v + t - 1) % 3 THEN 9 ELSE v \div 3]

\* Target.__call__ on an array of inputs
__call__(t, arr) == [i \in 1 .. Len(arr) |-> predict(t, arr[i])]

\* An argmax that takes the last of several maximal values
argmax_last(row) ==
    CHOOSE i \in 1 .. Len(row) :
        /\ \A j \in 1 .. Len(row) : row[j] <= row[i]
        /\ \A j \in (i + 1) .. Len(row) : row[j] < row[i]

\* np.argmax of one row: the lowest index holding the maximum
argmax(row) ==
    CHOOSE i \in 1 .. Len(row) :
        /\ \A j \in 1 .. Len(row) : row[j] <= row[i]
        /\ \A j \in 1 .. (i - 1) : row[j] < row[i]

\* An output array: a single vector of class scores (ndim 1) or a batch of
\* such rows (ndim 2).  __call__ returns a list of rows: numpy reads a list of
\* rows as an array of ndim 2, and the empty list as an array of ndim 1 and
\* length 0.
batch_output(rows) ==
    IF Len(rows) = 0 THEN [ndim |-> 1, data |-> <<>>] ELSE [ndim |-> 2, data |-> rows]

\* np.atleast_2d: a single output vector is one row
atleast_2d(output) == IF output.ndim = 1 THEN <<output.data>> ELSE output.data

\* np.argmax(output, axis=1) raises ValueError (attempt to get argmax of an
\* empty sequence) when the rows hold no score
argmax_raises(output) ==
    LET rows == atleast_2d(output)
    IN  \E i \in 1 .. Len(rows) : Len(rows[i]) = 0

\* Target.outputs_to_labels, where np.argmax does not raise
outputs_to_labels(output) ==
    LET rows == atleast_2d(output)
    IN  [i \in 1 .. Len(rows) |-> model_output_classes[argmax(rows[i])]]

(***************************************************************************)
(* State.                                                                  *)
(***************************************************************************)
VARIABLES
    cache,               \* Target.cache: key -> output (class attribute)
    num_evaluations,     \* per target
    actual_evaluations,  \* per target
    status,              \* active_attack.status, per target
    samples,             \* active_attack.samples, per target
    sample_index,        \* active_attack.sample_index, per target
    results,             \* active_attack.results, per target
    log,                 \* active_attack log records, per target
    pc,                  \* where the lifecycle of the target stands
    frame,               \* locals of the running run_attack, per target
    outcome,             \* how the last lifecycle call of the target ended
    last,                \* the last submit operation: its batch, return value, model calls
    returned,            \* per target: key -> output a cached submit returned for it
    seen,                \* per target: the keys submitted so far
    uncached_used,       \* per target: some submission bypassed the cache
    sent_calls,          \* per target: key -> cached submits that sent it to the model
    submitted_in_run,    \* per target, during run_attack: inputs submitted since its entry
    evaluated_in_run,    \* per target, during run_attack: inputs the model received since
    budget,              \* the cap on num_evaluations in the behaviour explored
    parameters,          \* active_attack.parameters, per target
    target_class,        \* active_attack.target_class, per target
    attacks,             \* Target.attacks: attack id -> session (class attribute)
    answer,              \* what the last get_attacks / check_attack_success /
                         \* outputs_to_labels call returned
    calls,               \* the frames of the cached submits that run concurrently
    model_data_type,     \* attribute of the target's class, per target
    model_input_shape,   \* attribute of the target's class, per target
    clip_values,         \* attribute of the target's class, per target
    files                \* per target: the files of <module_path>/results

execVars == <<cache, num_evaluations, actual_evaluations>>
sessionVars == <<status, samples, sample_index, results, log>>
runVars == <<pc, frame, outcome>>
histVars == <<last, returned, seen, uncached_used, sent_calls,
              submitted_in_run, evaluated_in_run>>
\* the attributes a target's class sets: no operation assigns them
attributeVars == <<model_data_type, model_input_shape, clip_values>>
\* what the submit operations and the lifecycle up to the final probe neither
\* read nor write
restVars == <<budget, parameters, target_class, attacks, answer, calls,
              attributeVars, files>>
vars == <<execVars, sessionVars, runVars, histVars, restVars>>

\* The empty dict
EmptyDict == [k \in {} |-> <<>>]

\* d[k] = v on a dict
DictSet(d, k, v) == [x \in (DOMAIN d) \cup {k} |-> IF x = k THEN v ELSE d[x]]

(***************************************************************************)
(* Target._submit_with_cache                                               *)
(***************************************************************************)
\* A first loop that finds no input in the cache
miss_index_all(c, batch_input, i) ==
    [j \in 1 .. (Len(batch_input) - i + 1) |-> i + j - 1]

\* The first loop: the positions that miss the cache, in input order.
RECURSIVE miss_index(_, _, _)
miss_index(c, batch_input, i) ==
    IF i > Len(batch_input) THEN <<>>
    ELSE IF _key(batch_input[i]) \in DOMAIN c
         THEN miss_index(c, batch_input, i + 1)
         ELSE <<i>> \o miss_index(c, batch_input, i + 1)

\* The first loop: output holds the cached value of a hit and None for a miss.
lookup_output(c, batch_input) ==
    [i \in 1 .. Len(batch_input) |->
        IF _key(batch_input[i]) \in DOMAIN c THEN c[_key(batch_input[i])] ELSE None]

\* A second loop that splices the j-th result into the j-th position
RECURSIVE merge_at_j(_, _, _, _, _, _)
merge_at_j(c, output, index, submit_batch, res, j) ==
    IF j > Len(index) THEN [cache |-> c, output |-> output]
    ELSE merge_at_j(DictSet(c, _key(submit_batch[j]), res[j]),
                    [output EXCEPT ![j] = res[j]],
                    index, submit_batch, res, j + 1)

\* A second loop that does not write the results back into the cache
RECURSIVE merge_without_put(_, _, _, _, _, _)
merge_without_put(c, output, index, submit_batch, res, j) ==
    IF j > Len(index) THEN [cache |-> c, output |-> output]
    ELSE merge_without_put(c, [output EXCEPT ![index[j]] = res[j]],
                           index, submit_batch, res, j + 1)

\* The second loop: write each result into the cache and into its position.
RECURSIVE merge(_, _, _, _, _, _)
merge(c, output, index, submit_batch, res, j) ==
    IF j > Len(index) THEN [cache |-> c, output |-> output]
    ELSE merge(DictSet(c, _key(submit_batch[j]), res[j]),
               [output EXCEPT ![index[j]] = res[j]],
               index, submit_batch, res, j + 1)

\* A cached batch that keeps only the entries of its own misses
cached_batch_evicting(t, c, batch_input) ==
    LET index == miss_index(c, batch_input, 1)
        submit_batch == [j \in 1 .. Len(index) |-> batch_input[index[j]]]
        output == lookup_output(c, batch_input)
    IN  IF Len(submit_batch) > 0
        THEN LET res == __call__(t, np_array(submit_batch))
                 m == merge(EmptyDict, output, index, submit_batch, res, 1)
             IN  [submitted |-> Len(submit_batch),
                  cache |-> m.cache,
                  out |-> m.output,
                  calls |-> <<np_array(submit_batch)>>]
        ELSE [submitted |-> 0,
              cache |-> c,
              out |-> output,
              calls |-> <<>>]

\* The two loops and the model call between them
cached_batch(t, c, batch_input) ==
    LET index == miss_index(c, batch_input, 1)
        submit_batch == [j \in 1 .. Len(index) |-> batch_input[index[j]]]
        output == lookup_output(c, batch_input)
    IN  IF Len(submit_batch) > 0
        THEN LET res == __call__(t, np_array(submit_batch))
                 m == merge(c, output, index, submit_batch, res, 1)
             IN  [submitted |-> Len(submit_batch),
                  cache |-> m.cache,
                  out |-> m.output,
                  calls |-> <<np_array(submit_batch)>>]
        ELSE [submitted |-> 0,
              cache |-> c,
              out |-> output,
              calls |-> <<>>]

\* The two counters taking each other's increment
_submit_with_cache_swapped(t, c, num, act, batch_input) ==
    LET b == cached_batch(t, c, batch_input)
    IN  [num |-> num + b.submitted,
         act |-> act + Len(batch_input),
         cache |-> b.cache,
         out |-> b.out,
         calls |-> b.calls]

_submit_with_cache(t, c, num, act, batch_input) ==
    LET b == cached_batch(t, c, batch_input)
    IN  [num |-> num + Len(batch_input),
         act |-> act + b.submitted,
         cache |-> b.cache,
         out |-> b.out,
         calls |-> b.calls]

(***************************************************************************)
(* Target._submit (PETarget._submit moves the counters the same way)       *)
(***************************************************************************)
_submit(t, num, act, batch_input) ==
    [num |-> num + Len(batch_input),
     act |-> act + Len(batch_input),
     out |-> __call__(t, np_array(batch_input)),
     calls |-> <<np_array(batch_input)>>]

(***************************************************************************)
(* Target._submit_with_logging                                             *)
(***************************************************************************)
log_entries(batch_input, output, label) ==
    [i \in 1 .. Len(batch_input) |->
        [input |-> <<batch_input[i].val>>, output |-> output[i], label |-> label[i]]]

\* A logging submit that goes through the cache
_submit_with_logging_cached(t, num, act, lg, batch_input) ==
    LET r == _submit_with_cache(t, cache, num, act, batch_input)
        output == batch_output(r.out)
    IN  IF argmax_raises(output)
        THEN [num |-> r.num, act |-> r.act, out |-> <<>>, calls |-> r.calls,
              log |-> lg, raised |-> TRUE]
        ELSE [num |-> r.num, act |-> r.act, out |-> r.out, calls |-> r.calls,
              log |-> lg \o log_entries(batch_input, r.out, outputs_to_labels(output)),
              raised |-> FALSE]

\* _submit has moved the counters and called the model when outputs_to_labels
\* raises (line 124): the exception leaves the method, nothing is appended.
_submit_with_logging(t, num, act, lg, batch_input) ==
    LET r == _submit(t, num, act, batch_input)
        output == batch_output(r.out)
    IN  IF argmax_raises(output)
        THEN [num |-> r.num, act |-> r.act, out |-> <<>>, calls |-> r.calls,
              log |-> lg, raised |-> TRUE]
        ELSE [num |-> r.num, act |-> r.act, out |-> r.out, calls |-> r.calls,
              log |-> lg \o log_entries(batch_input, r.out, outputs_to_labels(output)),
              raised |-> FALSE]

(***************************************************************************)
(* Target._get_query                                                       *)
(***************************************************************************)
Query(inp, outp, label) == [input |-> inp, output |-> outp, label |-> label]

\* Query._asdict(): a dict of the three fields.  `keys` holds the keys the dict
\* has: run_attack adds "images" to it, which reads as <<>> until then.
_asdict(q) ==
    [input |-> q.input, output |-> q.output, label |-> q.label,
     keys |-> {"input", "output", "label"}, images |-> <<>>]

\* A probe that goes through the cache
_get_query_cached(t, num, act, batch) ==
    LET r == _submit_with_cache(t, cache, num, act, batch)
        output == batch_output(r.out)
    IN  IF argmax_raises(output)
        THEN [num |-> r.num, act |-> r.act, out |-> <<>>, calls |-> r.calls,
              query |-> Query(<<>>, <<>>, <<>>), raised |-> TRUE]
        ELSE [num |-> r.num, act |-> r.act, out |-> r.out, calls |-> r.calls,
              query |-> Query(np_array(batch), r.out, outputs_to_labels(output)),
              raised |-> FALSE]

\* _submit has moved the counters and called the model when outputs_to_labels
\* raises (line 144): the exception leaves the method, no Query is made.
_get_query(t, num, act, batch) ==
    LET r == _submit(t, num, act, batch)
        output == batch_output(r.out)
    IN  IF argmax_raises(output)
        THEN [num |-> r.num, act |-> r.act, out |-> <<>>, calls |-> r.calls,
              query |-> Query(<<>>, <<>>, <<>>), raised |-> TRUE]
        ELSE [num |-> r.num, act |-> r.act, out |-> r.out, calls |-> r.calls,
              query |-> Query(np_array(batch), r.out, outputs_to_labels(output)),
              raised |-> FALSE]

(***************************************************************************)
(* History of the submissions, kept for the properties.  It identifies an  *)
(* input by its byte content, computed here and not through _key.          *)
(***************************************************************************)
content(sample) == tobytes(sample.val)

Keys(batch) == {content(batch[i]) : i \in 1 .. Len(batch)}

\* `raised` tells a call an exception left from one that returned `out`
Record(op, t, batch, r) ==
    [op |-> op, t |-> t, batch |-> batch, out |-> r.out, calls |-> r.calls,
     raised |-> IF "raised" \in DOMAIN r THEN r.raised ELSE FALSE]

\* the keys of the inputs the model calls of r carried
SentKeys(r) ==
    UNION {{tobytes(r.calls[n][i]) : i \in 1 .. Len(r.calls[n])} : n \in DOMAIN r.calls}

\* the first output a cached submit returned for each key, and for which sample
NoteReturned(ret, batch, out) ==
    [k \in (DOMAIN ret) \cup Keys(batch) |->
        IF k \in DOMAIN ret THEN ret[k]
        ELSE LET i == CHOOSE n \in 1 .. Len(batch) :
                          /\ content(batch[n]) = k
                          /\ \A m \in 1 .. (n - 1) : content(batch[m]) # k
             IN  [out |-> out[i], sample |-> batch[i]]]

\* the number of inputs the model calls of r carried
SentCount(r) == IF Len(r.calls) = 0 THEN 0 ELSE Len(r.calls[1])

NoteSent(sc, r) ==
    [k \in (DOMAIN sc) \cup SentKeys(r) |->
        (IF k \in DOMAIN sc THEN sc[k] ELSE 0) + (IF k \in SentKeys(r) THEN 1 ELSE 0)]

Note(op, t, batch, r, cached) ==
    /\ last' = Record(op, t, batch, r)
    /\ seen' = [seen EXCEPT ![t] = @ \cup Keys(batch)]
    /\ uncached_used' = [uncached_used EXCEPT ![t] = @ \/ ~cached]
    /\ returned' = IF cached
                   THEN [returned EXCEPT ![t] = NoteReturned(@, batch, r.out)]
                   ELSE returned
    /\ sent_calls' = IF cached
                     THEN [sent_calls EXCEPT ![t] = NoteSent(@, r)]
                     ELSE sent_calls

\* the submissions of a running run_attack are counted
NoteInRun(t, batch, r) ==
    /\ submitted_in_run' = IF pc[t] = "idle" THEN submitted_in_run
                           ELSE [submitted_in_run EXCEPT ![t] = @ + Len(batch)]
    /\ evaluated_in_run' = IF pc[t] = "idle" THEN evaluated_in_run
                           ELSE [evaluated_in_run EXCEPT ![t] = @ + SentCount(r)]

\* run_attack is over
NoteRunOver(t) ==
    /\ submitted_in_run' = [submitted_in_run EXCEPT ![t] = 0]
    /\ evaluated_in_run' = [evaluated_in_run EXCEPT ![t] = 0]

(***************************************************************************)
(* The session of a target and the sample pool it selects from.            *)
(***************************************************************************)
S(rep, v) == [rep |-> rep, val |-> v]

\* Target.X: the held-out samples of the target
X == <<S("ndarray", 0), S("ndarray", 0), S("ndarray", 0), S("ndarray", 1)>>

\* The indexes set_attack_samples is called with (0-based, as in the code):
\* a single index, or an iterable of indexes.
IndexChoices ==
    {[iter |-> FALSE, at |-> <<3>>], [iter |-> TRUE, at |-> <<0, 1, 2>>]}

\* No sample selected yet
NoIndex == [iter |-> FALSE, at |-> <<>>]

\* active_attack.results is a dict: `keys` holds the keys it has, and a key it
\* does not have reads as the filler below.
NoQuery ==
    [input |-> <<>>, output |-> <<>>, label |-> <<>>, keys |-> {}, images |-> <<>>]

NoResults ==
    [keys |-> {}, initial |-> NoQuery, final |-> NoQuery, elapsed_time |-> "",
     queries |-> 0, cache_hits |-> 0]

NoFrame == [queries0 |-> 0, actual_queries0 |-> 0, logging |-> FALSE]

NoLast == [op |-> "none", t |-> 0, batch |-> <<>>, out |-> <<>>, calls |-> <<>>,
           raised |-> FALSE]

\* active_attack.parameters is a dict: `keys` holds the keys it has.  A session
\* constructed without options has no "targeted" parameter.
NoParameters == [keys |-> {}, targeted |-> FALSE]

\* The attacks registered on the class: each target's session under its id
Registered == [id \in Targets |-> id]

NoAnswer == [op |-> "none", t |-> 0, arg |-> <<>>, returned |-> "", dict |-> <<>>, list |-> <<>>]

NoCalls == <<>>

(***************************************************************************)
(* The attributes of a target's class.  Target sets no model_data_type and *)
(* leaves clip_values None; a class that derives from it sets them.  The   *)
(* samples are one-element arrays of the shape model_input_shape: (1,),    *)
(* (1, 1) or (1, 1, 1).                                                    *)
(***************************************************************************)
NoDataType == [given |-> FALSE, value |-> ""]

DataType(v) == [given |-> TRUE, value |-> v]

Kind(data_type, shape, clip) ==
    [model_data_type |-> data_type, model_input_shape |-> shape, clip_values |-> clip]

\* a class of tabular data: run_attack saves nothing for it
TabularTarget == Kind(DataType("tabular"), <<1>>, None)

\* a class of one-pixel grayscale images with pixel values 0 .. 255
ImageTarget == Kind(DataType("image"), <<1, 1>>, <<0, 255>>)

\* a class that calls its data images and gives them one dimension
FlatImageTarget == Kind(DataType("image"), <<1>>, <<0, 1>>)

\* a class that sets no model_data_type
UntypedTarget == Kind(NoDataType, <<1>>, None)

TargetKinds ==
    {TabularTarget, ImageTarget, FlatImageTarget, UntypedTarget,
     Kind(DataType("image"), <<1, 1>>, <<0, 1>>),
     Kind(DataType("image"), <<1, 1>>, <<0, 2>>),
     Kind(DataType("image"), <<1, 1>>, None),
     Kind(DataType("image"), <<1, 1, 1>>, <<0, 255>>),
     Kind(DataType("pe"), <<1>>, None),
     Kind(DataType("html"), <<1>>, None)}

\* the targets are of one of the classes `kinds`; nothing is saved yet
Attributes(kinds) ==
    /\ \E kind \in kinds :
           /\ model_data_type = [t \in Targets |-> kind.model_data_type]
           /\ model_input_shape = [t \in Targets |-> kind.model_input_shape]
           /\ clip_values = [t \in Targets |-> kind.clip_values]
    /\ files = [t \in Targets |-> {}]

\* The class attributes of Target and a session nothing has been done with
Fresh ==
    /\ cache = EmptyDict
    /\ num_evaluations = [t \in Targets |-> 0]
    /\ actual_evaluations = [t \in Targets |-> 0]
    /\ samples = [t \in Targets |-> <<>>]
    /\ sample_index = [t \in Targets |-> NoIndex]
    /\ results = [t \in Targets |-> NoResults]
    /\ log = [t \in Targets |-> <<>>]
    /\ pc = [t \in Targets |-> "idle"]
    /\ frame = [t \in Targets |-> NoFrame]
    /\ outcome = [t \in Targets |-> "none"]
    /\ last = NoLast
    /\ returned = [t \in Targets |-> EmptyDict]
    /\ seen = [t \in Targets |-> {}]
    /\ uncached_used = [t \in Targets |-> FALSE]
    /\ sent_calls = [t \in Targets |-> EmptyDict]
    /\ submitted_in_run = [t \in Targets |-> 0]
    /\ evaluated_in_run = [t \in Targets |-> 0]

StartOf(cap, kinds) ==
    /\ budget = cap
    /\ parameters = [t \in Targets |-> NoParameters]
    /\ target_class = [t \in Targets |-> 0]
    /\ attacks = Registered
    /\ status = [t \in Targets |-> "pending"]
    /\ answer = NoAnswer
    /\ calls = NoCalls
    /\ Attributes(kinds)
    /\ Fresh

Start(cap) == StartOf(cap, {TabularTarget})

\* The counters stay within the explored range; a running run_attack keeps
\* room for its final probe.
Reserve(t) == IF pc[t] = "runner" THEN Len(samples[t]) ELSE 0

Room(t, n) == num_evaluations[t] + n + Reserve(t) <= budget

(***************************************************************************)
(* Direct calls of the submit operations.                                  *)
(***************************************************************************)
\* _submit_with_cache(batch), called directly or by a runner that holds the target
SubmitWithCache(t, batch) ==
    /\ pc[t] \in {"idle", "runner"}
    /\ Room(t, Len(batch))
    /\ LET r == _submit_with_cache(t, cache, num_evaluations[t], actual_evaluations[t], batch)
       IN  /\ cache' = r.cache
           /\ num_evaluations' = [num_evaluations EXCEPT ![t] = r.num]
           /\ actual_evaluations' = [actual_evaluations EXCEPT ![t] = r.act]
           /\ Note("_submit_with_cache", t, batch, r, TRUE)
           /\ NoteInRun(t, batch, r)
    /\ UNCHANGED restVars
    /\ UNCHANGED <<sessionVars, runVars>>

\* _submit(batch), called directly
Submit(t, batch) ==
    /\ pc[t] = "idle"
    /\ Room(t, Len(batch))
    /\ LET r == _submit(t, num_evaluations[t], actual_evaluations[t], batch)
       IN  /\ num_evaluations' = [num_evaluations EXCEPT ![t] = r.num]
           /\ actual_evaluations' = [actual_evaluations EXCEPT ![t] = r.act]
           /\ Note("_submit", t, batch, r, FALSE)
           /\ NoteInRun(t, batch, r)
    /\ UNCHANGED restVars
    /\ UNCHANGED <<cache, sessionVars, runVars>>

\* _submit_with_logging(batch), called directly
SubmitWithLogging(t, batch) ==
    /\ pc[t] = "idle"
    /\ Room(t, Len(batch))
    /\ Len(log[t]) + Len(batch) <= MaxLog
    /\ LET r == _submit_with_logging(t, num_evaluations[t], actual_evaluations[t],
                                     log[t], batch)
       IN  /\ num_evaluations' = [num_evaluations EXCEPT ![t] = r.num]
           /\ actual_evaluations' = [actual_evaluations EXCEPT ![t] = r.act]
           /\ log' = [log EXCEPT ![t] = r.log]
           /\ Note("_submit_with_logging", t, batch, r, FALSE)
           /\ NoteInRun(t, batch, r)
    /\ UNCHANGED restVars
    /\ UNCHANGED <<cache, status, samples, sample_index, results, runVars>>

(***************************************************************************)
(* The lifecycle.                                                          *)
(***************************************************************************)
\* Target.set_attack_samples(index)
set_attack_samples(index) ==
    [i \in 1 .. Len(index.at) |-> X[index.at[i] + 1]]

SetAttackSamples(t, index) ==
    /\ pc[t] = "idle"
    /\ sample_index' = [sample_index EXCEPT ![t] = index]
    /\ samples' = [samples EXCEPT ![t] = set_attack_samples(index)]
    /\ UNCHANGED restVars
    /\ UNCHANGED <<execVars, status, results, log, runVars, histVars>>

\* Target.init_run_attack()
init_run_attack(initial) ==
    [NoResults EXCEPT !.keys = {"initial"}, !.initial = _asdict(initial)]

InitRunAttack(t) ==
    /\ pc[t] = "idle"
    /\ sample_index[t] # NoIndex
    /\ Room(t, Len(samples[t]))
    /\ LET r == _get_query(t, num_evaluations[t], actual_evaluations[t], samples[t])
       IN  /\ num_evaluations' = [num_evaluations EXCEPT ![t] = r.num]
           /\ actual_evaluations' = [actual_evaluations EXCEPT ![t] = r.act]
           /\ results' = IF r.raised THEN results
                         ELSE [results EXCEPT ![t] = init_run_attack(r.query)]
           /\ Note("_get_query", t, samples[t], r, FALSE)
           /\ NoteInRun(t, samples[t], r)
    /\ UNCHANGED restVars
    /\ UNCHANGED <<cache, status, samples, sample_index, log, runVars>>

\* Target.run_attack(logging), up to the call of the runner: the counters are
\* read and _run_attack starts the runner.
\* An entry that takes the counters to start at zero
run_attack_enter_from_zero(num, act, logging) ==
    [queries0 |-> 0, actual_queries0 |-> 0, logging |-> logging]

run_attack_enter(num, act, logging) ==
    [queries0 |-> num, actual_queries0 |-> act, logging |-> logging]

\* A run_attack that marks the session running on entry
RunAttack_marks_running(t, logging) ==
    /\ t \in Concrete
    /\ pc[t] = "idle"
    /\ "initial" \in results[t].keys
    /\ Room(t, Len(samples[t]))
    /\ frame' = [frame EXCEPT ![t] =
                    run_attack_enter(num_evaluations[t], actual_evaluations[t], logging)]
    /\ pc' = [pc EXCEPT ![t] = "runner"]
    /\ outcome' = [outcome EXCEPT ![t] = "none"]
    /\ submitted_in_run' = [submitted_in_run EXCEPT ![t] = 0]
    /\ evaluated_in_run' = [evaluated_in_run EXCEPT ![t] = 0]
    /\ status' = [status EXCEPT ![t] = "running"]
    /\ UNCHANGED restVars
    /\ UNCHANGED <<execVars, samples, sample_index, results, log,
                   last, returned, seen, uncached_used, sent_calls>>

RunAttack(t, logging) ==
    /\ t \in Concrete
    /\ pc[t] = "idle"
    /\ "initial" \in results[t].keys
    /\ Room(t, Len(samples[t]))
    /\ frame' = [frame EXCEPT ![t] =
                    run_attack_enter(num_evaluations[t], actual_evaluations[t], logging)]
    /\ pc' = [pc EXCEPT ![t] = "runner"]
    /\ outcome' = [outcome EXCEPT ![t] = "none"]
    /\ submitted_in_run' = [submitted_in_run EXCEPT ![t] = 0]
    /\ evaluated_in_run' = [evaluated_in_run EXCEPT ![t] = 0]
    /\ UNCHANGED restVars
    /\ UNCHANGED <<execVars, sessionVars, last, returned, seen, uncached_used, sent_calls>>

\* Target._run_attack, the runner of a class that supplies none
\* A base runner that hands the samples back instead of raising
_run_attack_base_returns(st) == [status |-> st, raised |-> FALSE]

_run_attack_base(st) == [status |-> st, raised |-> TRUE]

\* Target.run_attack(logging) on a target without a runner: the counters are
\* read, _run_attack raises and the exception leaves run_attack.
RunAttackBase(t, logging) ==
    /\ t \notin Concrete
    /\ pc[t] = "idle"
    /\ LET r == _run_attack_base(status[t])
       IN  IF r.raised
           THEN /\ outcome' = [outcome EXCEPT ![t] = "NotImplementedError"]
                /\ UNCHANGED <<status, pc, frame>>
           ELSE /\ outcome' = [outcome EXCEPT ![t] = "none"]
                /\ status' = [status EXCEPT ![t] = r.status]
                /\ pc' = [pc EXCEPT ![t] = "final"]
                /\ frame' = [frame EXCEPT ![t] =
                       run_attack_enter(num_evaluations[t], actual_evaluations[t], logging)]
    /\ UNCHANGED restVars
    /\ UNCHANGED <<execVars, samples, sample_index, results, log, histVars>>

\* The runner queries the model through the callable it was given:
\* _submit_with_logging if logging else _submit.
RunnerQuery(t, batch) ==
    /\ pc[t] = "runner"
    /\ Room(t, Len(batch))
    /\ \/ /\ frame[t].logging
          /\ Len(log[t]) + Len(batch) <= MaxLog
          /\ LET r == _submit_with_logging(t, num_evaluations[t], actual_evaluations[t],
                                           log[t], batch)
             IN  /\ num_evaluations' = [num_evaluations EXCEPT ![t] = r.num]
                 /\ actual_evaluations' = [actual_evaluations EXCEPT ![t] = r.act]
                 /\ log' = [log EXCEPT ![t] = r.log]
                 /\ Note("_submit_with_logging", t, batch, r, FALSE)
                 /\ NoteInRun(t, batch, r)
       \/ /\ ~frame[t].logging
          /\ LET r == _submit(t, num_evaluations[t], actual_evaluations[t], batch)
             IN  /\ num_evaluations' = [num_evaluations EXCEPT ![t] = r.num]
                 /\ actual_evaluations' = [actual_evaluations EXCEPT ![t] = r.act]
                 /\ log' = log
                 /\ Note("_submit", t, batch, r, FALSE)
                 /\ NoteInRun(t, batch, r)
    /\ UNCHANGED restVars
    /\ UNCHANGED <<cache, status, samples, sample_index, results, runVars>>

\* _run_art_attack / _run_textattack_attack / PETarget._run_attack from the point
\* where the runner (generate, attack_dataset) ends: if it raised, the exception
\* leaves the method there; if it returned, the status is set and the examples
\* are handed back.
\* A runner wrapper that marks the session completed before the runner ends
_run_attack_completed_first(st, raised) ==
    [status |-> "completed", raised |-> raised]

_run_attack(st, raised) ==
    [status |-> IF raised THEN st ELSE "completed", raised |-> raised]

\* The runner raises, and run_attack is left by the exception.
RunnerRaise(t) ==
    /\ pc[t] = "runner"
    /\ LET r == _run_attack(status[t], TRUE)
       IN  /\ status' = [status EXCEPT ![t] = r.status]
           /\ outcome' = [outcome EXCEPT ![t] = IF r.raised THEN "raised" ELSE "none"]
    /\ pc' = [pc EXCEPT ![t] = "idle"]
    /\ frame' = [frame EXCEPT ![t] = NoFrame]
    /\ NoteRunOver(t)
    /\ UNCHANGED restVars
    /\ UNCHANGED <<execVars, samples, sample_index, results, log,
                   last, returned, seen, uncached_used, sent_calls>>

\* The samples a runner may return for the probe batch: as many, as lists.
Perturbed(batch) ==
    {adv \in [1 .. Len(batch) -> Samples] : \A i \in 1 .. Len(batch) : adv[i].rep = "list"}

\* The runner has ended without raising: the status is set (line 314).
RunnerReturn(t) ==
    /\ pc[t] = "runner"
    /\ status' = [status EXCEPT ![t] = _run_attack(@, FALSE).status]
    /\ pc' = [pc EXCEPT ![t] = "final"]
    /\ UNCHANGED restVars
    /\ UNCHANGED <<execVars, samples, sample_index, results, log, frame, outcome, histVars>>

\* Target.run_attack from the return of _run_attack (line 315, which hands the
\* runner's examples back): the final probe of the examples and the statistics.
\* time.time() - t0: the wall-clock value is not modelled
elapsed == "time.time() - t0"

\* Statistics that subtract the wrong way round
run_attack_results_negated(res, final, num, act, queries0, actual_queries0) ==
    LET queries == num - queries0
        actual_queries == act - actual_queries0
    IN  [res EXCEPT !.keys = @ \cup {"final", "elapsed_time", "queries", "cache_hits"},
                    !.final = _asdict(final),
                    !.elapsed_time = elapsed,
                    !.queries = queries,
                    !.cache_hits = actual_queries - queries]

run_attack_results(res, final, num, act, queries0, actual_queries0) ==
    LET queries == num - queries0
        actual_queries == act - actual_queries0
    IN  [res EXCEPT !.keys = @ \cup {"final", "elapsed_time", "queries", "cache_hits"},
                    !.final = _asdict(final),
                    !.elapsed_time = elapsed,
                    !.queries = queries,
                    !.cache_hits = queries - actual_queries]

\* The file names run_attack makes.  The model name and the attack id, the
\* same for every file of a session, are left out: a name tells what the file
\* holds ("initial", "final": the image of a sample; "location": the path of a
\* sample of the input archive; "zip": the archive of the results), the
\* 0-based position or index of the sample, and the label in its suffix.
FileName(holds, i, label) == [holds |-> holds, i |-> i, label |-> label]

\* Target._save_image for a one-element array: "" when the file was written,
\* or the exception raised.  Image.fromarray raises IndexError for the 0-d
\* array that squeeze() makes of a (1, 1, 1) sample, channels first or last.
_save_image(shape, clip) ==
    IF clip = None THEN "TypeError"
    ELSE IF clip[2] # 255 /\ clip[2] # 1 THEN "ValueError"
    ELSE IF Len(shape) = 3 THEN "IndexError"
    ELSE IF Len(shape) = 2 THEN ""
    ELSE "ValueError"

\* One loop of lines 215-225 over the dict q of a query: each round saves an
\* image and binds q['images'] to the names so far.  _save_image fails or
\* succeeds for every sample alike, so a loop that raises does so in its first
\* round, before a file is written or 'images' is bound.
save_images(q, holds, shape, clip) ==
    LET filenames == [i \in 1 .. Len(q.input) |-> FileName(holds, i - 1, q.label[i])]
        raised == IF Len(filenames) = 0 THEN "" ELSE _save_image(shape, clip)
    IN  IF raised # "" \/ Len(filenames) = 0
        THEN [raised |-> raised, dict |-> q, saved |-> {}]
        ELSE [raised |-> "",
              dict |-> [q EXCEPT !.keys = @ \cup {"images"}, !.images = filenames],
              saved |-> {filenames[i] : i \in 1 .. Len(filenames)}]

\* Lines 227-248, for a class that sets zip_info (one entry per sample of X),
\* sample_input_path and encryption_password: the results folder is removed,
\* each final sample (a list of byte values) is written to a temporary
\* directory by _save_exe, which makes the results folder again, and the
\* archive of them is the one file left.  sample_index[i] raises IndexError
\* when the final query holds more samples than were selected.
save_exes(q, index) ==
    LET filenames == [i \in 1 .. Len(q.input) |-> FileName("location", index.at[i], "")]
    IN  IF Len(q.input) > Len(index.at)
        THEN [raised |-> "IndexError", dict |-> q, saved |-> {}]
        ELSE [raised |-> "",
              dict |-> [q EXCEPT !.keys = @ \cup {"images"}, !.images = filenames],
              saved |-> {FileName("zip", 0, "")}]

\* Target.run_attack, lines 214-248: the samples are saved
run_attack_files(res, data_type, shape, clip, index, saved) ==
    IF ~data_type.given
    THEN [raised |-> "AttributeError", results |-> res, files |-> saved]
    ELSE IF data_type.value = "image"
    THEN LET a == save_images(res.initial, "initial", shape, clip)
             b == save_images(res.final, "final", shape, clip)
         IN  IF a.raised # ""
             THEN [raised |-> a.raised, results |-> res, files |-> saved]
             ELSE [raised |-> b.raised,
                   results |-> [res EXCEPT !.initial = a.dict, !.final = b.dict],
                   files |-> saved \cup a.saved \cup b.saved]
    ELSE IF data_type.value \in {"pe", "html"}
    THEN LET e == save_exes(res.final, index)
         IN  [raised |-> e.raised,
              results |-> [res EXCEPT !.final = e.dict],
              files |-> e.saved]
    ELSE [raised |-> "", results |-> res, files |-> saved]

\* The final probe, the statistics and the saving of the samples.  When
\* outputs_to_labels raises in the probe nothing is recorded; when the saving
\* raises, final and the statistics are recorded already.
RunAttackFinish(t, resulting_samples) ==
    /\ pc[t] = "final"
    /\ Room(t, Len(resulting_samples))
    /\ LET r == _get_query(t, num_evaluations[t], actual_evaluations[t], resulting_samples)
           res == run_attack_results(results[t], r.query, r.num, r.act,
                                     frame[t].queries0, frame[t].actual_queries0)
           s == run_attack_files(res, model_data_type[t], model_input_shape[t],
                                 clip_values[t], sample_index[t], files[t])
       IN  /\ num_evaluations' = [num_evaluations EXCEPT ![t] = r.num]
           /\ actual_evaluations' = [actual_evaluations EXCEPT ![t] = r.act]
           /\ IF r.raised
              THEN /\ outcome' = [outcome EXCEPT ![t] = "ValueError"]
                   /\ UNCHANGED <<results, files>>
              ELSE /\ outcome' = [outcome EXCEPT ![t] =
                                     IF s.raised = "" THEN "returned" ELSE s.raised]
                   /\ results' = [results EXCEPT ![t] = s.results]
                   /\ files' = [files EXCEPT ![t] = s.files]
           /\ Note("_get_query", t, resulting_samples, r, FALSE)
           /\ NoteRunOver(t)
    /\ pc' = [pc EXCEPT ![t] = "idle"]
    /\ frame' = [frame EXCEPT ![t] = NoFrame]
    /\ UNCHANGED <<budget, parameters, target_class, attacks, answer, calls, attributeVars>>
    /\ UNCHANGED <<cache, status, samples, sample_index, log>>

\* The model call of the final probe raises (the wrapped model is the user's
\* code): _submit has advanced both counters (lines 117-118) and the exception
\* leaves _get_query and run_attack before anything is recorded.
FinalProbeRaise(t, resulting_samples) ==
    /\ pc[t] = "final"
    /\ Room(t, Len(resulting_samples))
    /\ num_evaluations' = [num_evaluations EXCEPT ![t] = @ + Len(resulting_samples)]
    /\ actual_evaluations' = [actual_evaluations EXCEPT ![t] = @ + Len(resulting_samples)]
    /\ pc' = [pc EXCEPT ![t] = "idle"]
    /\ frame' = [frame EXCEPT ![t] = NoFrame]
    /\ outcome' = [outcome EXCEPT ![t] = "raised"]
    /\ NoteRunOver(t)
    /\ UNCHANGED restVars
    /\ UNCHANGED <<cache, sessionVars, last, returned, seen, uncached_used, sent_calls>>

(***************************************************************************)
(* Target.check_attack_success                                             *)
(***************************************************************************)
\* parameters.get("targeted", False)
targeted(params) == IF "targeted" \in params.keys THEN params.targeted ELSE FALSE

\* new_labels != old_labels, elementwise, a one-element array stretched over
\* the other (numpy broadcasting)
not_equal(new_labels, old_labels) ==
    IF Len(old_labels) = 1
    THEN [i \in 1 .. Len(new_labels) |-> new_labels[i] # old_labels[1]]
    ELSE IF Len(new_labels) = 1
         THEN [i \in 1 .. Len(old_labels) |-> new_labels[1] # old_labels[i]]
         ELSE [i \in 1 .. Len(new_labels) |-> new_labels[i] # old_labels[i]]

\* the shapes numpy compares elementwise
broadcastable(new_labels, old_labels) ==
    Len(new_labels) = Len(old_labels) \/ Len(new_labels) = 1 \/ Len(old_labels) = 1

\* A success test that never looks at the targeted parameter
check_attack_success_untargeted(res, params, tc) ==
    not_equal(res.final.label, res.initial.label)

check_attack_success(res, params, tc) ==
    LET new_labels == res.final.label
        old_labels == res.initial.label
    IN  IF targeted(params)
        THEN [i \in 1 .. Len(new_labels) |-> new_labels[i] = model_output_classes[tc + 1]]
        ELSE not_equal(new_labels, old_labels)

Answer(op, t, arg, kind, d, l) ==
    [op |-> op, t |-> t, arg |-> arg, returned |-> kind, dict |-> d, list |-> l]

\* check_attack_success() on a session that holds both queries
CheckAttackSuccess(t) ==
    /\ pc[t] = "idle"
    /\ {"initial", "final"} \subseteq results[t].keys
    /\ targeted(parameters[t])
           \/ broadcastable(results[t].final.label, results[t].initial.label)
    /\ answer' = Answer("check_attack_success", t, <<>>, "array", <<>>,
                        check_attack_success(results[t], parameters[t], target_class[t]))
    /\ UNCHANGED <<execVars, sessionVars, runVars, histVars>>
    /\ UNCHANGED <<budget, parameters, target_class, attacks, calls, attributeVars, files>>

(***************************************************************************)
(* Target.get_attacks                                                      *)
(***************************************************************************)
\* enums.AttackStatus
AttackStatus == {"pending", "running", "completed"}

\* The status argument: absent (the default None) or a value
NoStatus == [given |-> FALSE, value |-> ""]

StatusArgs ==
    {NoStatus} \cup {[given |-> TRUE, value |-> v] : v \in AttackStatus \cup {"", "finished"}}

\* `not status`: None and the empty string are false
is_false(status_arg) == ~status_arg.given \/ status_arg.value = ""

\* {k: v for (k, v) in table.items() if v.status == wanted}
with_status(table, st, wanted) ==
    [k \in {id \in DOMAIN table : st[table[id]] = wanted} |-> table[k]]

\* A get_attacks that does not filter by the status
get_attacks_unfiltered(table, st, status_arg) ==
    IF is_false(status_arg) THEN [returned |-> "dict", dict |-> table]
    ELSE IF status_arg.value \notin AttackStatus
         THEN [returned |-> "False", dict |-> EmptyDict]
         ELSE [returned |-> "dict", dict |-> table]

get_attacks(table, st, status_arg) ==
    IF is_false(status_arg) THEN [returned |-> "dict", dict |-> table]
    ELSE IF status_arg.value \notin AttackStatus
         THEN [returned |-> "False", dict |-> EmptyDict]
         ELSE [returned |-> "dict", dict |-> with_status(table, st, status_arg.value)]

GetAttacks(t, status_arg) ==
    /\ pc[t] = "idle"
    /\ LET r == get_attacks(attacks, status, status_arg)
       IN  answer' = Answer("get_attacks", t, status_arg, r.returned, r.dict, <<>>)
    /\ UNCHANGED <<execVars, sessionVars, runVars, histVars>>
    /\ UNCHANGED <<budget, parameters, target_class, attacks, calls, attributeVars, files>>

(***************************************************************************)
(* Target.outputs_to_labels called on an output array: a single vector of  *)
(* class scores (ndim 1) or a batch of them (ndim 2).                      *)
(***************************************************************************)
OutputsToLabels(t, array) ==
    /\ pc[t] = "idle"
    /\ answer' = IF argmax_raises(array)
                 THEN Answer("outputs_to_labels", t, array, "ValueError", <<>>, <<>>)
                 ELSE Answer("outputs_to_labels", t, array, "list", <<>>,
                             outputs_to_labels(array))
    /\ UNCHANGED <<execVars, sessionVars, runVars, histVars>>
    /\ UNCHANGED <<budget, parameters, target_class, attacks, calls, attributeVars, files>>

(***************************************************************************)
(* Target._submit_with_cache executed by concurrent callers, one statement *)
(* at a time.  A frame holds the locals of one call; `at` is the statement *)
(* it executes next.  An augmented assignment to a counter is a read and a *)
(* write.                                                                  *)
(***************************************************************************)
NewCall(t, batch_input) ==
    [at |-> "read_num", t |-> t, batch_input |-> batch_input, loaded |-> 0, i |-> 1,
     submit_batch |-> <<>>, index |-> <<>>, output |-> <<>>, results |-> <<>>, j |-> 1]

\* where the first loop goes after position i
after_lookup(f, i) ==
    IF i <= Len(f.batch_input) THEN "lookup"
    ELSE IF Len(f.submit_batch) > 0 THEN "read_actual" ELSE "return"

\* line 91, the read of self.num_evaluations
ReadNum(c) ==
    /\ calls[c].at = "read_num"
    /\ calls' = [calls EXCEPT ![c].loaded = num_evaluations[calls[c].t],
                              ![c].at = "write_num"]
    /\ UNCHANGED <<execVars, sessionVars, runVars, histVars>>
    /\ UNCHANGED <<budget, parameters, target_class, attacks, answer, attributeVars, files>>

\* line 91, the write of self.num_evaluations
WriteNum(c) ==
    /\ calls[c].at = "write_num"
    /\ num_evaluations' = [num_evaluations EXCEPT ![calls[c].t] =
                               calls[c].loaded + Len(calls[c].batch_input)]
    /\ calls' = [calls EXCEPT ![c].at = after_lookup(calls[c], 1)]
    /\ UNCHANGED <<cache, actual_evaluations, sessionVars, runVars, histVars>>
    /\ UNCHANGED <<budget, parameters, target_class, attacks, answer, attributeVars, files>>

\* lines 94-100: `key in self.cache`; on a miss the locals take the input
Lookup(c) ==
    LET f == calls[c]
        array == f.batch_input[f.i]
    IN  /\ f.at = "lookup"
        /\ IF _key(array) \in DOMAIN cache
           THEN calls' = [calls EXCEPT ![c].at = "fetch"]
           ELSE calls' = [calls EXCEPT
                             ![c].output = Append(@, None),
                             ![c].submit_batch = Append(@, array),
                             ![c].index = Append(@, f.i),
                             ![c].i = f.i + 1,
                             ![c].at = after_lookup(
                                 [f EXCEPT !.submit_batch = Append(@, array)], f.i + 1)]
        /\ UNCHANGED <<execVars, sessionVars, runVars, histVars>>
        /\ UNCHANGED <<budget, parameters, target_class, attacks, answer, attributeVars, files>>

\* line 96: output.append(self.cache[key])
Fetch(c) ==
    LET f == calls[c]
    IN  /\ f.at = "fetch"
        /\ calls' = [calls EXCEPT
                         ![c].output = Append(@, cache[_key(f.batch_input[f.i])]),
                         ![c].i = f.i + 1,
                         ![c].at = after_lookup(f, f.i + 1)]
        /\ UNCHANGED <<execVars, sessionVars, runVars, histVars>>
        /\ UNCHANGED <<budget, parameters, target_class, attacks, answer, attributeVars, files>>

\* line 104, the read of self.actual_evaluations
ReadActual(c) ==
    /\ calls[c].at = "read_actual"
    /\ calls' = [calls EXCEPT ![c].loaded = actual_evaluations[calls[c].t],
                              ![c].at = "write_actual"]
    /\ UNCHANGED <<execVars, sessionVars, runVars, histVars>>
    /\ UNCHANGED <<budget, parameters, target_class, attacks, answer, attributeVars, files>>

\* line 104, the write of self.actual_evaluations
WriteActual(c) ==
    /\ calls[c].at = "write_actual"
    /\ actual_evaluations' = [actual_evaluations EXCEPT ![calls[c].t] =
                                  calls[c].loaded + Len(calls[c].submit_batch)]
    /\ calls' = [calls EXCEPT ![c].at = "call"]
    /\ UNCHANGED <<cache, num_evaluations, sessionVars, runVars, histVars>>
    /\ UNCHANGED <<budget, parameters, target_class, attacks, answer, attributeVars, files>>

\* line 105: results = self.__call__(np.array(submit_batch))
CallModel(c) ==
    /\ calls[c].at = "call"
    /\ calls' = [calls EXCEPT
                     ![c].results = __call__(calls[c].t, np_array(calls[c].submit_batch)),
                     ![c].j = 1,
                     ![c].at = "merge"]
    /\ UNCHANGED <<execVars, sessionVars, runVars, histVars>>
    /\ UNCHANGED <<budget, parameters, target_class, attacks, answer, attributeVars, files>>

\* lines 108-111, one round of the second loop
\* A round that writes the result at the position of the round
merge_step_at_j(f, c) ==
    [cache |-> DictSet(c, _key(f.submit_batch[f.j]), f.results[f.j]),
     output |-> [f.output EXCEPT ![f.j] = f.results[f.j]]]

merge_step(f, c) ==
    [cache |-> DictSet(c, _key(f.submit_batch[f.j]), f.results[f.j]),
     output |-> [f.output EXCEPT ![f.index[f.j]] = f.results[f.j]]]

Merge(c) ==
    LET f == calls[c]
        m == merge_step(f, cache)
    IN  /\ f.at = "merge"
        /\ cache' = m.cache
        /\ calls' = [calls EXCEPT
                         ![c].output = m.output,
                         ![c].j = f.j + 1,
                         ![c].at = IF f.j + 1 <= Len(f.index) THEN "merge" ELSE "return"]
        /\ UNCHANGED <<num_evaluations, actual_evaluations, sessionVars, runVars, histVars>>
        /\ UNCHANGED <<budget, parameters, target_class, attacks, answer, attributeVars, files>>

\* line 113: return output
Return(c) ==
    /\ calls[c].at = "return"
    /\ calls' = [calls EXCEPT ![c].at = "done"]
    /\ UNCHANGED <<execVars, sessionVars, runVars, histVars>>
    /\ UNCHANGED <<budget, parameters, target_class, attacks, answer, attributeVars, files>>

(***************************************************************************)
(* Spec: the submit operations called directly, in any order.              *)
(***************************************************************************)
Init == Start(MaxDirect)

Next ==
    \E t \in ActiveTargets :
        \/ \E batch \in Batches : SubmitWithCache(t, batch)
        \/ \E batch \in Batches : Submit(t, batch)
        \/ \E batch \in Batches : SubmitWithLogging(t, batch)

Spec == Init /\ [][Next]_vars

(***************************************************************************)
(* SpecRun: the lifecycle of a session, with a runner that queries through *)
(* the callable it was given or through the target's cached submit.        *)
(***************************************************************************)
RunnerBatches == {b \in Batches : Len(b) <= 1 /\ \A i \in 1 .. Len(b) : b[i].rep = "list"}

\* the classes of the targets whose sessions are run: one for which run_attack
\* saves nothing, one for which the saving raises
RunKinds == {TabularTarget, FlatImageTarget}

InitRun == StartOf(MaxRunEvals, RunKinds)

Lifecycle(t, indexes) ==
    \/ \E index \in indexes : SetAttackSamples(t, index)
    \/ InitRunAttack(t)
    \/ \E logging \in BOOLEAN : RunAttack(t, logging)
    \/ \E batch \in RunnerBatches : RunnerQuery(t, batch)
    \/ \E batch \in RunnerBatches : pc[t] = "runner" /\ SubmitWithCache(t, batch)
    \/ RunnerRaise(t)
    \/ RunnerReturn(t)
    \/ \E adv \in Perturbed(samples[t]) : RunAttackFinish(t, adv)

NextRun == \E t \in ActiveTargets : Lifecycle(t, IndexChoices)

SpecRun == InitRun /\ [][NextRun]_vars

(***************************************************************************)
(* SpecScenario: the lifecycle of sessions that attack a batch of samples. *)
(***************************************************************************)
InitScenario == StartOf(MaxEvals, TargetKinds)

BatchIndexes == {index \in IndexChoices : index.iter}

NextScenario == \E t \in ActiveTargets : Lifecycle(t, BatchIndexes)

SpecScenario == InitScenario /\ [][NextScenario]_vars

(***************************************************************************)
(* SpecSession: the lifecycle of a session constructed with or without the *)
(* targeted option, and the questions asked about it.                      *)
(***************************************************************************)
\* target classes are indexes of the vocabulary (0-based, as in the code)
TargetClasses == 0 .. (Len(model_output_classes) - 1)

ParameterChoices ==
    {NoParameters} \cup {[keys |-> {"targeted"}, targeted |-> b] : b \in BOOLEAN}

\* the sessions constructed: untargeted ones carry no target class of interest
SessionChoices ==
    {[parameters |-> p, target_class |-> c] :
        p \in ParameterChoices, c \in TargetClasses} \ 
    {[parameters |-> p, target_class |-> c] :
        p \in {q \in ParameterChoices : ~targeted(q)}, c \in TargetClasses \ {0}}

\* the class of the targets the sessions attack: run_attack saves images
SessionKinds == {ImageTarget}

InitSession ==
    /\ budget = MaxSessionEvals
    /\ \E session \in SessionChoices :
           /\ parameters = [t \in Targets |-> session.parameters]
           /\ target_class = [t \in Targets |-> session.target_class]
    /\ attacks = Registered
    /\ status = [t \in Targets |-> "pending"]
    /\ answer = NoAnswer
    /\ calls = NoCalls
    /\ Attributes(SessionKinds)
    /\ Fresh

\* the samples the sessions attack: the last of X, or the last two, which
\* differ in content and in label
SessionIndexes ==
    {[iter |-> FALSE, at |-> <<3>>], [iter |-> TRUE, at |-> <<2, 3>>]}

NextSession ==
    \E t \in ActiveTargets :
        \/ Lifecycle(t, SessionIndexes)
        \/ \E adv \in Perturbed(samples[t]) : FinalProbeRaise(t, adv)
        \/ CheckAttackSuccess(t)

SpecSession == InitSession /\ [][NextSession]_vars

(***************************************************************************)
(* SpecLabels: outputs_to_labels applied to output arrays.                 *)
(***************************************************************************)
Scores == 0 .. MaxScore

Rows == [1 .. Len(model_output_classes) -> Scores]

\* a vector of class scores, a batch of them, or the array of an empty list
OutputArrays ==
    {[ndim |-> 1, data |-> row] : row \in Rows}
    \cup {[ndim |-> 2, data |-> rows] : rows \in SeqsUpTo(Rows, MaxRows) \ {<<>>}}
    \cup {batch_output(<<>>)}

\* the output array at hand is drawn at the start and then labelled
InitLabels ==
    /\ budget = 0
    /\ parameters = [t \in Targets |-> NoParameters]
    /\ target_class = [t \in Targets |-> 0]
    /\ attacks = Registered
    /\ status = [t \in Targets |-> "pending"]
    /\ calls = NoCalls
    /\ \E array \in OutputArrays : answer = [NoAnswer EXCEPT !.arg = array]
    /\ Attributes({TabularTarget})
    /\ Fresh

NextLabels == \E t \in ActiveTargets : OutputsToLabels(t, answer.arg)

SpecLabels == InitLabels /\ [][NextLabels]_vars

(***************************************************************************)
(* SpecBase: a target of a class without a runner.                         *)
(***************************************************************************)
BaseTargets == Targets \ Concrete

InitBase == Start(MaxBaseEvals)

NextBase ==
    \E t \in BaseTargets :
        \/ \E batch \in Batches : SubmitWithCache(t, batch)
        \/ \E batch \in Batches : Submit(t, batch)
        \/ \E index \in IndexChoices : SetAttackSamples(t, index)
        \/ InitRunAttack(t)
        \/ \E logging \in BOOLEAN : RunAttackBase(t, logging)

SpecBase == InitBase /\ [][NextBase]_vars

(***************************************************************************)
(* SpecAttacks: get_attacks asked of an attack table.  The table and the   *)
(* statuses of the sessions it holds are drawn at the start.               *)
(***************************************************************************)
AttackIds == 1 .. MaxAttacks

AttackTables == UNION {[ids -> Targets] : ids \in SUBSET AttackIds}

InitAttacks ==
    /\ budget = 0
    /\ parameters = [t \in Targets |-> NoParameters]
    /\ target_class = [t \in Targets |-> 0]
    /\ attacks \in AttackTables
    /\ status \in [Targets -> AttackStatus]
    /\ answer = NoAnswer
    /\ calls = NoCalls
    /\ Attributes({TabularTarget})
    /\ Fresh

NextAttacks ==
    \E t \in ActiveTargets : \E status_arg \in StatusArgs : GetAttacks(t, status_arg)

SpecAttacks == InitAttacks /\ [][NextAttacks]_vars

(***************************************************************************)
(* SpecOperations: every operation of a target in any order, on a session  *)
(* that attacks one sample.                                                *)
(***************************************************************************)
SingleIndexes == {index \in IndexChoices : ~index.iter}

\* the class of the targets operated: run_attack saves an archive
OperationKinds == {Kind(DataType("pe"), <<1>>, None)}

InitOperations == StartOf(MaxOperationEvals, OperationKinds)

\* get_attacks is asked for every attack and for the completed ones
AskedStatusArgs == {NoStatus, [given |-> TRUE, value |-> "completed"]}

NextOperations ==
    \E t \in ActiveTargets :
        \/ Lifecycle(t, SingleIndexes)
        \/ \E adv \in Perturbed(samples[t]) : FinalProbeRaise(t, adv)
        \/ CheckAttackSuccess(t)
        \/ \E status_arg \in AskedStatusArgs : GetAttacks(t, status_arg)
        \/ \E batch \in RunnerBatches : Submit(t, batch)
        \/ \E batch \in RunnerBatches : SubmitWithLogging(t, batch)
        \/ \E batch \in Batches : pc[t] = "idle" /\ SubmitWithCache(t, batch)

SpecOperations == InitOperations /\ [][NextOperations]_vars

(***************************************************************************)
(* SpecShared: two target objects, wrapping different models, submit in    *)
(* any order.  Target.cache is a class attribute that neither object       *)
(* rebinds: both read and write the one dict.                              *)
(***************************************************************************)
InitShared == Start(MaxSharedEvals)

NextShared ==
    \E t \in Targets :
        \/ \E batch \in Batches : pc[t] = "idle" /\ SubmitWithCache(t, batch)
        \/ \E batch \in Batches : Submit(t, batch)

SpecShared == InitShared /\ [][NextShared]_vars

(***************************************************************************)
(* SpecConcurrent: two cached submits against target 1 run concurrently,   *)
(* their statements interleaved in any order.  The batches are drawn at    *)
(* the start.                                                              *)
(***************************************************************************)
Callers == {1, 2}

ConcurrentBatches ==
    {b \in Batches : \A i \in 1 .. Len(b) : b[i].rep = "list"}

InitConcurrent ==
    /\ budget = 0
    /\ parameters = [t \in Targets |-> NoParameters]
    /\ target_class = [t \in Targets |-> 0]
    /\ attacks = Registered
    /\ status = [t \in Targets |-> "pending"]
    /\ answer = NoAnswer
    /\ \E first, second \in ConcurrentBatches :
           calls = [c \in Callers |-> NewCall(1, IF c = 1 THEN first ELSE second)]
    /\ Attributes({TabularTarget})
    /\ Fresh

NextConcurrent ==
    \E c \in Callers :
        \/ ReadNum(c)
        \/ WriteNum(c)
        \/ Lookup(c)
        \/ Fetch(c)
        \/ ReadActual(c)
        \/ WriteActual(c)
        \/ CallModel(c)
        \/ Merge(c)
        \/ Return(c)

SpecConcurrent == InitConcurrent /\ [][NextConcurrent]_vars

(***************************************************************************)
(* The steps the properties speak about.                                   *)
(***************************************************************************)
\* a submit operation of target t was performed
SubmitStep(t) ==
    /\ last'.t = t
    /\ last' # last \/ num_evaluations'[t] # num_evaluations[t]

CachedSubmitStep(t) == SubmitStep(t) /\ last'.op = "_submit_with_cache"

\* run_attack of target t ends after its runner has returned
FinishStep(t) == pc[t] = "final" /\ pc'[t] = "idle"

\* run_attack of target t is left by the runner's exception
RaiseStep(t) == pc[t] = "runner" /\ pc'[t] = "idle"

\* the inputs of a batch that the cache c does not hold, in their order
Missing(c, batch) == np_array(SelectSeq(batch, LAMBDA x : content(x) \notin DOMAIN c))

\* how many inputs of a batch the cache c holds
HitCount(c, batch) == Cardinality({i \in 1 .. Len(batch) : content(batch[i]) \in DOMAIN c})

RunStatKeys == {"final", "elapsed_time", "queries", "cache_hits"}

(***************************************************************************)
(* C1: actual_evaluations <= num_evaluations in every reachable state, and *)
(* no step of any submit operation or probe decreases either counter.      *)
(***************************************************************************)
C1_CountersOrdered ==
    /\ [](\A t \in Targets : actual_evaluations[t] <= num_evaluations[t])
    /\ [][\A t \in Targets : /\ num_evaluations'[t] >= num_evaluations[t]
                             /\ actual_evaluations'[t] >= actual_evaluations[t]]_vars

\* a cache hit, a logging submit and both probes have happened
C1_Witness ==
    /\ actual_evaluations[1] < num_evaluations[1]
    /\ Len(log[1]) > 0
    /\ "final" \in results[1].keys

(***************************************************************************)
(* C2: a cached submit of N inputs of which M are in the cache makes one   *)
(* model call carrying the N-M missing inputs in their original order, or  *)
(* no call when M = N; num_evaluations grows by N, actual_evaluations by   *)
(* N-M.                                                                    *)
(***************************************************************************)
C2_OneCallForTheMisses ==
    [][\A t \in Targets :
          CachedSubmitStep(t) =>
              LET batch == last'.batch
                  N == Len(batch)
                  M == HitCount(cache, batch)
              IN  /\ last'.calls = IF M = N THEN <<>> ELSE <<Missing(cache, batch)>>
                  /\ num_evaluations'[t] = num_evaluations[t] + N
                  /\ actual_evaluations'[t] = actual_evaluations[t] + (N - M)]_vars

\* a partial hit: two inputs submitted, one of them sent to the model
C2_Witness ==
    /\ last.op = "_submit_with_cache"
    /\ Len(last.batch) = 2
    /\ last.calls = <<<<last.batch[2].val>>>>
    /\ last.batch[1].val # last.batch[2].val

(***************************************************************************)
(* C3: once a cached submit has returned an output for an input A, a later *)
(* cached submit of [B], B of the same byte content as A, returns that     *)
(* output without calling the model: actual_evaluations is unchanged and   *)
(* num_evaluations grows by 1.                                             *)
(***************************************************************************)
C3_SameBytesSameOutput ==
    [][\A t \in Targets :
          (/\ CachedSubmitStep(t)
           /\ Len(last'.batch) = 1
           /\ content(last'.batch[1]) \in DOMAIN returned[t])
          => /\ last'.out = <<returned[t][content(last'.batch[1])].out>>
             /\ last'.calls = <<>>
             /\ actual_evaluations'[t] = actual_evaluations[t]
             /\ num_evaluations'[t] = num_evaluations[t] + 1]_vars

\* B is another object than A (a list, A an array), of the same bytes, and hit
C3_Witness ==
    /\ last.op = "_submit_with_cache"
    /\ Len(last.batch) = 1
    /\ last.calls = <<>>
    /\ last.batch[1].rep = "list"
    /\ content(last.batch[1]) \in DOMAIN returned[1]
    /\ returned[1][content(last.batch[1])].sample.rep = "ndarray"

(***************************************************************************)
(* C4: a cached submit returns a list as long as its batch whose i-th      *)
(* element is the model's output for the i-th input, which is what the     *)
(* uncached submit returns for the batch; no position is left unfilled.    *)
(***************************************************************************)
C4_CachedEqualsUncached ==
    last.op = "_submit_with_cache" =>
        /\ Len(last.out) = Len(last.batch)
        /\ \A i \in 1 .. Len(last.batch) :
               /\ last.out[i] # None
               /\ last.out[i] = predict(last.t, last.batch[i].val)
        /\ last.out = _submit(last.t, 0, 0, last.batch).out

\* a miss in the first position and a hit in the second, after a batch that
\* held one missing input twice
C4_Witness ==
    /\ last.op = "_submit_with_cache"
    /\ Len(last.batch) = 2
    /\ last.batch[1].val # last.batch[2].val
    /\ last.calls = <<<<last.batch[1].val>>>>
    /\ actual_evaluations[last.t] > Cardinality(seen[last.t])

(***************************************************************************)
(* C5: the end-to-end scenario.  After an initial probe of 3 samples and a *)
(* runner that returned 3 samples of which exactly 1 has the bytes of a    *)
(* sample of the initial probe, the final probe has just been made.        *)
(***************************************************************************)
MatchesOfInitial(t) ==
    {i \in 1 .. Len(results[t].final.input) :
        \E j \in 1 .. Len(results[t].initial.input) :
            tobytes(results[t].final.input[i]) = tobytes(results[t].initial.input[j])}

EndToEnd(t) ==
    /\ pc[t] = "idle"
    /\ outcome[t] = "returned"
    /\ {"initial", "final"} \subseteq results[t].keys
    /\ Len(results[t].initial.input) = 3
    /\ Len(results[t].final.input) = 3
    /\ Cardinality(MatchesOfInitial(t)) = 1
    /\ last.op = "_get_query"
    /\ last.t = t
    /\ np_array(last.batch) = results[t].final.input

\* C5 as claimed: the final probe has 1 cache hit and makes one model call
\* carrying 2 inputs.
C5_FinalProbeHitsCache ==
    EndToEnd(1) =>
        /\ Len(last.calls) = 1
        /\ Len(last.calls[1]) = 2
        /\ Len(last.batch) - SentCount(last) = 1

\* C5 as amended: the final probe is an uncached submission; it makes one
\* model call carrying all 3 inputs and has no cache hit.
C5_FinalProbeUncached ==
    EndToEnd(1) =>
        /\ last.calls = <<results[1].final.input>>
        /\ Len(last.batch) - SentCount(last) = 0

\* the scenario, with the matching sample in the cache when the final probe is made
C5_Witness ==
    /\ EndToEnd(1)
    /\ \E i \in MatchesOfInitial(1) : tobytes(results[1].final.input[i]) \in DOMAIN cache

(***************************************************************************)
(* C6: the span of results.queries.  At the return of run_attack last' is  *)
(* the final probe.                                                        *)
(***************************************************************************)
\* the inputs the runner of target t has submitted
SubmittedBy(t) == submitted_in_run[t]

\* the inputs the model has received from the runner of target t
EvaluatedFor(t) == evaluated_in_run[t]

\* C6 as claimed: queries counts the inputs of the initial probe, of the
\* runner and of the final probe.
C6_QueriesIncludeInitialProbe ==
    [][FinishStep(1) =>
          results'[1].queries =
              Len(results'[1].initial.input) + SubmittedBy(1) + Len(last'.batch)]_vars

\* C6 as amended: queries counts the inputs submitted from the entry of
\* run_attack to the end of the final probe (the runner's and the final
\* probe's), and not those of the initial probe.
C6_QueriesSpanRunAttack ==
    [][FinishStep(1) =>
          /\ results'[1].queries = SubmittedBy(1) + Len(last'.batch)
          /\ results'[1].queries <
                 Len(results'[1].initial.input) + SubmittedBy(1) + Len(last'.batch)]_vars

\* a run whose runner submitted inputs of its own has returned
C6_Witness ==
    /\ outcome[1] = "returned"
    /\ pc[1] = "idle"
    /\ "queries" \in results[1].keys
    /\ results[1].queries > Len(results[1].final.input)

(***************************************************************************)
(* C7: for every run that reaches the statistics, cache_hits = queries -   *)
(* (actual_evaluations after - actual_evaluations before), and cache_hits  *)
(* is not negative.                                                        *)
(***************************************************************************)
C7_CacheHitsIdentity ==
    [][FinishStep(1) =>
          /\ results'[1].cache_hits =
                 results'[1].queries - (EvaluatedFor(1) + SentCount(last'))
          /\ results'[1].cache_hits >= 0]_vars

\* a run with cache hits has returned
C7_Witness ==
    /\ outcome[1] = "returned"
    /\ "cache_hits" \in results[1].keys
    /\ results[1].cache_hits > 0

(***************************************************************************)
(* C8: deduplication.                                                      *)
(***************************************************************************)
\* C8 as claimed: while every submission uses the cache, actual_evaluations
\* does not exceed the number of distinct fingerprints submitted so far.
C8_AtMostOncePerFingerprint ==
    \A t \in Targets :
        ~uncached_used[t] => actual_evaluations[t] <= Cardinality(seen[t])

\* C8 as amended: a fingerprint is sent to the model by at most one cached
\* submit (the one that first meets it), and there once per occurrence in
\* the batch.
C8_AtMostOneCallPerFingerprint ==
    \A t \in Targets : \A k \in DOMAIN sent_calls[t] : sent_calls[t][k] <= 1

\* a fingerprint sent twice in its one call, and submitted again afterwards
C8_Witness ==
    /\ ~uncached_used[1]
    /\ actual_evaluations[1] > Cardinality(seen[1])
    /\ num_evaluations[1] > actual_evaluations[1]
    /\ \E k \in DOMAIN sent_calls[1] : sent_calls[1][k] = 1

C10_CompletedSessionUntouched ==
    [][(status[1] = "completed" /\ pc[1] = "idle" /\ outcome[1] = "returned") =>
          /\ status'[1] = status[1]
          /\ pc'[1] # "runner"
          /\ results'[1] = results[1]]_vars

\* C10 as amended: no operation changes a completed status.
C10_CompletedStatusStays ==
    [][\A t \in Targets : status[t] = "completed" => status'[t] = "completed"]_vars

\* a completed session whose runner is running again, after run_attack had
\* returned for it
C10_Witness ==
    /\ status[1] = "completed"
    /\ "final" \in results[1].keys
    /\ pc[1] = "runner"

(***************************************************************************)
(* C11: a logging submit of n inputs appends n records to the log of the   *)
(* session, the i-th carrying the i-th input, the model's output for it    *)
(* and the label of that output; the records the log held stay as they     *)
(* were; the submission is uncached: num_evaluations and                   *)
(* actual_evaluations both grow by n, whatever the cache holds.            *)
(***************************************************************************)
LoggingSubmitStep(t) == SubmitStep(t) /\ last'.op = "_submit_with_logging"

\* the label of one output row: the class of its highest score, the first of them
LabelOf(row) ==
    LET best == {c \in 1 .. Len(row) : \A d \in 1 .. Len(row) : row[d] <= row[c]}
        first == CHOOSE c \in best : \A d \in best : c <= d
    IN  model_output_classes[first]

C11_LoggingAppendsAndEvaluates ==
    [][\A t \in Targets :
          LoggingSubmitStep(t) =>
              LET batch == last'.batch
                  n == Len(batch)
                  old == Len(log[t])
              IN  /\ Len(log'[t]) = old + n
                  /\ SubSeq(log'[t], 1, old) = log[t]
                  /\ \A i \in 1 .. n :
                         /\ log'[t][old + i].input = <<batch[i].val>>
                         /\ log'[t][old + i].output = predict(t, batch[i].val)
                         /\ log'[t][old + i].output = last'.out[i]
                         /\ log'[t][old + i].label = LabelOf(last'.out[i])
                  /\ num_evaluations'[t] = num_evaluations[t] + n
                  /\ actual_evaluations'[t] = actual_evaluations[t] + n]_vars

\* a logging submit of an input the cache holds, appended to a log that held a record
C11_Witness ==
    /\ last.op = "_submit_with_logging"
    /\ Len(last.batch) = 1
    /\ content(last.batch[1]) \in DOMAIN cache
    /\ Len(log[1]) = 2
    /\ log[1][1].input # log[1][2].input

(***************************************************************************)
(* C12: check_attack_success.                                              *)
(***************************************************************************)
CheckStep(t) ==
    /\ answer'.op = "check_attack_success"
    /\ answer'.t = t
    /\ answer' # answer

\* each sample of the session has an initial and a final label
LabelsPaired(t) == Len(results[t].final.label) = Len(results[t].initial.label)

IsTargeted(t) == "targeted" \in parameters[t].keys /\ parameters[t].targeted

\* C12 as claimed: check_attack_success returns one boolean per sample,
\* computed from the recorded initial and final labels: in targeted mode true
\* iff the final label of the sample is the label of the target class, in
\* untargeted mode (targeted absent or false) true iff the final label of the
\* sample differs from its initial label; it calls no model and changes no
\* counter, cache entry or result.
C12_OneBooleanPerSample ==
    [][\A t \in Targets :
          CheckStep(t) =>
              LET new == results[t].final.label
                  old == results[t].initial.label
                  wanted == model_output_classes[target_class[t] + 1]
              IN  /\ Len(answer'.list) = Len(new)
                  /\ \A i \in 1 .. Len(new) :
                         IF IsTargeted(t)
                         THEN answer'.list[i] = (new[i] = wanted)
                         ELSE /\ i <= Len(old)
                              /\ answer'.list[i] = (new[i] # old[i])
                  /\ UNCHANGED <<cache, num_evaluations, actual_evaluations,
                                 results, last>>]_vars

\* C12 as amended: check_attack_success compares the recorded labels and
\* nothing else, calls no model and changes no counter, cache entry or
\* result.  In targeted mode it returns one boolean per final sample, true
\* iff the final label is the label of the target class.  In untargeted mode
\* it returns one boolean per sample, true iff the final label of the sample
\* differs from its initial label, when the two queries hold as many labels;
\* when they do not (the samples were selected anew between the initial
\* probe and the run) and one of them holds a single label, that label is
\* compared with every label of the other, and the booleans are as many as
\* the other holds.
C12_SuccessFromRecordedLabels ==
    [][\A t \in Targets :
          CheckStep(t) =>
              LET new == results[t].final.label
                  old == results[t].initial.label
                  wanted == model_output_classes[target_class[t] + 1]
                  list == answer'.list
              IN  /\ IsTargeted(t) =>
                         /\ Len(list) = Len(new)
                         /\ \A i \in 1 .. Len(new) : list[i] = (new[i] = wanted)
                  /\ (~IsTargeted(t) /\ LabelsPaired(t)) =>
                         /\ Len(list) = Len(new)
                         /\ \A i \in 1 .. Len(new) : list[i] = (new[i] # old[i])
                  /\ (~IsTargeted(t) /\ ~LabelsPaired(t) /\ Len(new) = 1) =>
                         /\ Len(list) = Len(old)
                         /\ \A i \in 1 .. Len(old) : list[i] = (new[1] # old[i])
                  /\ (~IsTargeted(t) /\ ~LabelsPaired(t) /\ Len(old) = 1) =>
                         /\ Len(list) = Len(new)
                         /\ \A i \in 1 .. Len(new) : list[i] = (new[i] # old[1])
                  /\ IsTargeted(t) \/ LabelsPaired(t) \/ Len(new) = 1 \/ Len(old) = 1
                  /\ UNCHANGED <<cache, num_evaluations, actual_evaluations,
                                 results, last>>]_vars

\* an untargeted session of two samples with different initial labels, of
\* which the first changed its label to that of the second and the second
\* kept its own
C12_Witness ==
    /\ answer.op = "check_attack_success"
    /\ ~IsTargeted(1)
    /\ Len(results[1].initial.label) = 2
    /\ Len(results[1].final.label) = 2
    /\ results[1].initial.label[1] # results[1].initial.label[2]
    /\ results[1].final.label[1] = results[1].initial.label[2]
    /\ results[1].final.label[2] = results[1].initial.label[2]
    /\ answer.list = <<TRUE, FALSE>>

(***************************************************************************)
(* C13: the default label derivation returns one label per output row, the *)
(* vocabulary entry at the index of the row's maximum, the lowest index    *)
(* when several values are maximal; a single un-batched output vector is   *)
(* one row.  A row has a maximum when it holds a score: the derivation     *)
(* raises for the one array whose row holds none, the array of an empty    *)
(* list, and for no other.                                                 *)
(***************************************************************************)
RowsOf(array) == IF array.ndim = 1 THEN <<array.data>> ELSE array.data

C13_LabelIsFirstMaximum ==
    answer.op = "outputs_to_labels" =>
        LET rows == RowsOf(answer.arg)
        IN  IF \A i \in 1 .. Len(rows) : Len(rows[i]) > 0
            THEN /\ answer.returned = "list"
                 /\ Len(answer.list) = Len(rows)
                 /\ \A i \in 1 .. Len(rows) :
                        /\ answer.list[i] = LabelOf(rows[i])
                        /\ \E c \in 1 .. Len(rows[i]) :
                               /\ answer.list[i] = model_output_classes[c]
                               /\ \A d \in 1 .. Len(rows[i]) : rows[i][d] <= rows[i][c]
                               /\ \A d \in 1 .. (c - 1) : rows[i][d] < rows[i][c]
            ELSE answer.returned = "ValueError"

\* a single vector whose two highest scores tie, labelled by the first of them
C13_Witness ==
    /\ answer.op = "outputs_to_labels"
    /\ answer.returned = "list"
    /\ answer.arg.ndim = 1
    /\ answer.arg.data[1] < answer.arg.data[2]
    /\ answer.arg.data[2] = answer.arg.data[3]
    /\ answer.list = <<"catB">>

(***************************************************************************)
(* C14: run_attack on a target whose class supplies no runner fails with   *)
(* NotImplementedError before any submission: num_evaluations,             *)
(* actual_evaluations, the cache, the status of the session and its        *)
(* results are what they were before the call.                             *)
(***************************************************************************)
\* a call of run_attack on target t has ended or moved on
RunAttackStep(t) ==
    \/ pc'[t] # pc[t]
    \/ outcome'[t] # outcome[t]
    \/ frame'[t] # frame[t]

C14_BaseRunAttackNotImplemented ==
    [][\A t \in BaseTargets :
          RunAttackStep(t) =>
              /\ outcome'[t] = "NotImplementedError"
              /\ pc'[t] = "idle"
              /\ UNCHANGED <<num_evaluations, actual_evaluations, cache,
                             status, results, last>>]_vars

\* the call failed on a session that held an initial query, with the cache
\* and the counters in use
C14_Witness ==
    /\ outcome[2] = "NotImplementedError"
    /\ "initial" \in results[2].keys
    /\ DOMAIN cache # {}
    /\ actual_evaluations[2] < num_evaluations[2]
    /\ status[2] = "pending"

(***************************************************************************)
(* C15: get_attacks does not raise and does not modify the attack table:   *)
(* with an unrecognized status it returns False, with no status (None or   *)
(* an empty one) it returns every registered attack, with a recognized     *)
(* status exactly the registered attacks whose status equals it.           *)
(***************************************************************************)
GetAttacksStep == answer'.op = "get_attacks" /\ answer' # answer

Recognized == {"pending", "running", "completed"}

C15_GetAttacksFilters ==
    [][GetAttacksStep =>
          LET arg == answer'.arg
              none == ~arg.given \/ arg.value = ""
          IN  /\ attacks' = attacks
              /\ answer'.returned \in {"dict", "False"}
              /\ none => /\ answer'.returned = "dict"
                         /\ answer'.dict = attacks
              /\ (~none /\ arg.value \notin Recognized) => answer'.returned = "False"
              /\ (~none /\ arg.value \in Recognized) =>
                     /\ answer'.returned = "dict"
                     /\ DOMAIN answer'.dict =
                            {id \in DOMAIN attacks : status[attacks[id]] = arg.value}
                     /\ \A id \in DOMAIN answer'.dict : answer'.dict[id] = attacks[id]]_vars

\* a recognized status that some registered attacks have and others have not
C15_Witness ==
    /\ answer.op = "get_attacks"
    /\ answer.arg.given
    /\ answer.arg.value = "completed"
    /\ DOMAIN answer.dict # {}
    /\ DOMAIN answer.dict # DOMAIN attacks

(***************************************************************************)
(* C16: in every reachable state in which the status of a session is       *)
(* completed, its final probe has been performed and results.final is      *)
(* recorded: the status is not completed while the final probe is pending  *)
(* or after it has failed.                                                 *)
(***************************************************************************)
C16_CompletedHasFinal ==
    \A t \in Targets :
        status[t] = "completed" =>
            /\ pc[t] # "final"
            /\ "final" \in results[t].keys

(***************************************************************************)
(* C17: the status of a session moves only from pending to running and     *)
(* from running to completed, and it is running for as long as the runner  *)
(* executes.                                                               *)
(***************************************************************************)
C17_StatusPath ==
    /\ [](\A t \in Targets : pc[t] = "runner" => status[t] = "running")
    /\ [][\A t \in Targets :
             status'[t] # status[t] =>
                 <<status[t], status'[t]>> \in
                     {<<"pending", "running">>, <<"running", "completed">>}]_vars

(***************************************************************************)
(* C18: the cache only grows and is written only by a cached submit that   *)
(* misses: no step removes a key or changes the output stored under it, a  *)
(* step that changes the cache is a cached submit with a missing input and *)
(* adds the model's outputs of its missing inputs, and the uncached        *)
(* submit, the logging submit, the probes, get_attacks and                 *)
(* check_attack_success leave the cache as it was.                         *)
(***************************************************************************)
UncachedOps == {"_submit", "_submit_with_logging", "_get_query"}

C18_CacheOnlyGrows ==
    [][/\ \A k \in DOMAIN cache : k \in DOMAIN cache' /\ cache'[k] = cache[k]
       /\ cache' # cache =>
              \E t \in Targets :
                  /\ CachedSubmitStep(t)
                  /\ Missing(cache, last'.batch) # <<>>
                  /\ DOMAIN cache' = (DOMAIN cache) \cup Keys(last'.batch)
                  /\ \A i \in 1 .. Len(last'.batch) :
                         content(last'.batch[i]) \notin DOMAIN cache =>
                             cache'[content(last'.batch[i])] =
                                 predict(t, last'.batch[i].val)
       /\ (last' # last /\ last'.op \in UncachedOps) => cache' = cache
       /\ answer' # answer => cache' = cache]_vars

\* the cache has grown twice, every other operation has been used since the
\* first entry, and a cached submit of a key it holds has left it as it was
C18_Witness ==
    /\ Cardinality(DOMAIN cache) = 2
    /\ last.op = "_submit_with_cache"
    /\ Len(last.batch) = 1
    /\ last.calls = <<>>
    /\ answer.op # "none"

(***************************************************************************)
(* C19: the cache is scoped to one target.  Every output a cached submit   *)
(* on target t returns is the output of t's own model for that input, and  *)
(* an input that was never submitted to t is sent to t's model.            *)
(***************************************************************************)
C19_CacheScopedToTarget ==
    [][\A t \in Targets :
          CachedSubmitStep(t) =>
              \A i \in 1 .. Len(last'.batch) :
                  /\ last'.out[i] = predict(t, last'.batch[i].val)
                  /\ content(last'.batch[i]) \notin seen[t] =>
                         \E n \in DOMAIN last'.calls :
                             \E j \in DOMAIN last'.calls[n] :
                                 tobytes(last'.calls[n][j]) = content(last'.batch[i])]_vars

(***************************************************************************)
(* C20: two cached submits against one target run concurrently, their      *)
(* cache lookups, model calls and cache writes interleaved.  In every      *)
(* reachable state each cache entry maps the bytes of an input to the      *)
(* model's output for that input, and a call that has returned holds the   *)
(* model's output for each of its inputs, in input order.                  *)
(***************************************************************************)
C20_ConcurrentCacheSound ==
    /\ \A k \in DOMAIN cache :
           \E v \in Values : k = tobytes(v) /\ cache[k] = predict(1, v)
    /\ \A c \in DOMAIN calls :
           calls[c].at = "done" =>
               /\ Len(calls[c].output) = Len(calls[c].batch_input)
               /\ \A i \in 1 .. Len(calls[c].batch_input) :
                      calls[c].output[i] = predict(calls[c].t, calls[c].batch_input[i].val)

\* both calls have returned; both missed one input and sent it to the model,
\* and the first call took another input from the cache entry the second wrote
C20_Witness ==
    /\ DOMAIN calls = {1, 2}
    /\ calls[1].at = "done"
    /\ calls[2].at = "done"
    /\ \E x \in DOMAIN calls[1].submit_batch : \E y \in DOMAIN calls[2].submit_batch :
           calls[1].submit_batch[x].val = calls[2].submit_batch[y].val
    /\ Len(calls[1].submit_batch) < Len(calls[1].batch_input)
    /\ calls[1].index = <<1>>

====
